---- MODULE Spec2Model ----
(***************************************************************************)
(* Order lifecycle of the WooCommerce -> Supabase automation (index.js):   *)
(* the order store, the reminder scheduler (/cron-check), the paid         *)
(* transition (handleMarkPaid), /track and the cancel / restore submenu.   *)
(*                                                                         *)
(* Encoding of JavaScript values.  A nullable string column holds a string *)
(* or NullStr; a nullable number or timestamp column holds <<>> (null) or  *)
(* <<v>>; a previous_reminder_* column holds "null", "true" or "false".    *)
(* Time is counted in hours since the service started.                     *)
(***************************************************************************)
EXTENDS Integers, Sequences, FiniteSets, TLC

VARIABLES
    now,          \* the wall clock read by nowISO() / Date.now(), in hours
    wcConfigured, \* WC_USER && WC_PASS
    orders,       \* the Supabase table orders: order_id -> row or NoRow
    ledger,       \* the Supabase table paid_order_items, in insertion order
    prev,         \* the orders table as the last handler found it
    last,         \* what the last handler did (calls made, replies sent)
    cron,         \* the /cron-check request in flight (interleaved runs)
    paid,         \* the handleMarkPaid call in flight (interleaved runs)
    payload,      \* the order object of the webhook request being mapped
    result        \* what the item code made of payload

vars == <<now, wcConfigured, orders, ledger, prev, last, cron, paid,
          payload, result>>

\* ---------------------------------------------------------------- bounds
MaxNow == 72
HourStep == 24
MaxLedger == 1
MaxCreatedAt == 0

\* ------------------------------------------------------------- constants
Hours24 == 24
Hours48 == 48
Hours72 == 72
Discount == 30
HoursPerDay == 24

OrderIds == {"o1"}
Amounts == {0, 500}

NullStr == "null"
Null == <<>>
Some(v) == <<v>>
NoRow == [absent |-> TRUE]

\* ------------------------------------------------------------ JS helpers
\* o.amount || 0 on a nullable number column
NumOrZero(x) == IF x = Null THEN 0 ELSE x[1]

\* o.amount || null : 0 is falsy
NumOrNull(x) == IF x = Null \/ x[1] = 0 THEN Null ELSE x

\* o.reminder_N_sent || false, stored into previous_reminder_N_sent
BoolOrFalse(b) == IF b THEN "true" ELSE "false"

\* (a restore that clears the reminder flags instead of copying them back)
FlagCleared(p) == FALSE

\* the value a previous_reminder_N_sent column gives to reminder_N_sent;
\* a null flag is falsy wherever the handlers read it (!o.reminder_N_sent)
FlagFromPrevious(p) == p = "true"

hoursSince(iso) == now - iso

dayKey == now \div HoursPerDay

\* PATCH /orders?order_id=eq.id : the named columns of the row are replaced;
\* a filter that matches no row updates nothing
patch(tbl, id, patchBody) ==
    IF tbl[id] = NoRow THEN tbl
    ELSE [tbl EXCEPT ![id] =
            [f \in DOMAIN tbl[id] |->
                IF f \in DOMAIN patchBody THEN patchBody[f] ELSE tbl[id][f]]]

Idle == [pc |-> "idle"]

\* the outcomes of a request: one the handler does not get to make has none
\* to choose between
Outcomes(reached) == IF reached THEN BOOLEAN ELSE {TRUE}

\* no webhook request is being looked at
NoPayload == [t |-> "undefined"]
NotRun == [op |-> "none"]

\* op: the handler that ran last; fetched: what its read of the
\* order returned; patched: its write to the orders table was applied;
\* woo: the status it sent to WooCommerce; msg: its reply; threw: an exception
\* left the handler's body for its outermost catch; inserted: a
\* paid_order_items row was added; wooFailed: the WooCommerce call was made
\* and failed; sent: the handler issued its write to the orders table.
\* For /cron-check, id is the order whose patch failed; for
\* /delete_today_confirm, ids are the order ids of the day's ledger rows and
\* failed those whose DELETE was refused; for /today, ids are the orders listed
NoOp == [op |-> "none", id |-> "none", fetched |-> "none",
         patched |-> FALSE, woo |-> "none", msg |-> "none", threw |-> FALSE,
         inserted |-> FALSE, wooFailed |-> FALSE, sent |-> FALSE, ids |-> {},
         failed |-> {}]

\* (a WooCommerce failure that leaves the handler instead of being logged)
wooCallRethrown(wooOk) == wooOk

\* try { await axios.put(woo...) } catch (e) { console.error(...) } : whether
\* the handler goes on to its own writes after the WooCommerce call
wooCallSurvived(wooOk) == TRUE

\* (an absent order answered as if the WooCommerce call had been made)
notFoundAfterWoo(op, id) ==
    [NoOp EXCEPT !.op = op, !.id = id, !.fetched = "absent",
                 !.woo = "processing", !.msg = "not found"]

\* if (!rows.length) return safeSend(chatId, "Order ... not found") : what a
\* handler has done when it returns for an order that is not stored
notFound(op, id) ==
    [NoOp EXCEPT !.op = op, !.id = id, !.fetched = "absent", !.msg = "not found"]

Init ==
    /\ now = 0
    /\ wcConfigured \in BOOLEAN
    /\ orders = [id \in OrderIds |-> NoRow]
    /\ ledger = <<>>
    /\ prev = orders
    /\ last = NoOp
    /\ cron = Idle
    /\ paid = Idle
    /\ payload = NoPayload
    /\ result = NotRun

\* ------------------------------------------------------------ the clock
AdvanceClock ==
    /\ now + HourStep <= MaxNow
    /\ now' = now + HourStep
    /\ prev' = orders
    /\ last' = NoOp
    /\ UNCHANGED <<wcConfigured, orders, ledger, cron, paid, payload, result>>

\* ------------------------------------------- POST /woocommerce-webhook
mapped(id, total) ==
    [ order_id |-> id,
      amount |-> Some(total),
      status |-> "pending_payment",
      created_at |-> now,
      next_message |-> "reminder_24h",
      reminder_24_sent |-> FALSE,
      reminder_48_sent |-> FALSE,
      reminder_72_sent |-> FALSE,
      discounted_amount |-> Null,
      paid_at |-> Null,
      paid_message_pending |-> FALSE,
      hidden_from_today |-> FALSE,
      previous_status |-> NullStr,
      previous_paid_at |-> Null,
      previous_amount |-> Null,
      previous_next_message |-> NullStr,
      previous_reminder_24_sent |-> "null",
      previous_reminder_48_sent |-> "null",
      previous_reminder_72_sent |-> "null" ]

\* order_id is the key of the orders table: an insert for an id that is
\* already stored is rejected, like any other failed insert it is only logged
WoocommerceWebhook ==
    \E id \in DOMAIN orders, total \in Amounts :
    \E insertOk \in IF orders[id] = NoRow THEN BOOLEAN ELSE {FALSE} :
        LET stored == insertOk /\ orders[id] = NoRow IN
        /\ now <= MaxCreatedAt
        /\ cron = Idle /\ paid = Idle
        /\ orders' = IF stored THEN [orders EXCEPT ![id] = mapped(id, total)]
                     ELSE orders
        /\ last' = [NoOp EXCEPT !.op = "create", !.id = id,
                                !.patched = stored, !.msg = "OK"]
        /\ prev' = orders
        /\ UNCHANGED <<now, wcConfigured, ledger, cron, paid, payload, result>>

\* --------------------------------------------------- GET /cron-check
\* (the 48h step storing the full amount, the offer not taken off)
discountedNoOffer(o) == Some(NumOrZero(o.amount))

\* (o.amount || 0) - 30
discounted(o) == Some(NumOrZero(o.amount) - Discount)

\* patch(o.order_id, { reminder_24_sent: true, next_message: "reminder_48h" })
step24(o) ==
    [order_id |-> o.order_id,
     body |-> [reminder_24_sent |-> TRUE, next_message |-> "reminder_48h"]]

\* patch(o.order_id, { reminder_48_sent: true, discounted_amount: ...,
\*                     next_message: "reminder_72h" })
step48(o) ==
    [order_id |-> o.order_id,
     body |-> [reminder_48_sent |-> TRUE,
               discounted_amount |-> discounted(o),
               next_message |-> "reminder_72h"]]

\* patch(o.order_id, { reminder_72_sent: true, status: "cancelled" })
step72(o) ==
    [order_id |-> o.order_id,
     body |-> [reminder_72_sent |-> TRUE, status |-> "cancelled"]]

\* (a pass that sends every step that is due, whatever the flags say)
reminderPatchesUnguarded(o) ==
    LET h == hoursSince(o.created_at) IN
    (IF h >= Hours24 THEN << step24(o) >> ELSE << >>)
    \o (IF h >= Hours48 THEN << step48(o) >> ELSE << >>)
    \o (IF h >= Hours72 THEN << step72(o) >> ELSE << >>)

\* (a pass that sends the latest step first)
reminderPatchesReversed(o) ==
    LET h == hoursSince(o.created_at) IN
    (IF ~o.reminder_72_sent /\ h >= Hours72 THEN << step72(o) >> ELSE << >>)
    \o (IF ~o.reminder_48_sent /\ h >= Hours48 THEN << step48(o) >> ELSE << >>)
    \o (IF ~o.reminder_24_sent /\ h >= Hours24 THEN << step24(o) >> ELSE << >>)

\* (a pass without the 72h step)
reminderPatchesNoCancel(o) ==
    LET h == hoursSince(o.created_at) IN
    (IF ~o.reminder_24_sent /\ h >= Hours24 THEN << step24(o) >> ELSE << >>)
    \o (IF ~o.reminder_48_sent /\ h >= Hours48 THEN << step48(o) >> ELSE << >>)

\* the patches one pass issues for a fetched row o, in the order it sends them
reminderPatches(o) ==
    LET h == hoursSince(o.created_at) IN
    (IF ~o.reminder_24_sent /\ h >= Hours24 THEN << step24(o) >> ELSE << >>)
    \o (IF ~o.reminder_48_sent /\ h >= Hours48 THEN << step48(o) >> ELSE << >>)
    \o (IF ~o.reminder_72_sent /\ h >= Hours72 THEN << step72(o) >> ELSE << >>)

\* (a fetch that returns every stored order)
PendingIdsAnyStatus(tbl) == {id \in DOMAIN tbl : tbl[id] # NoRow}

\* the rows of GET /orders?status=eq.pending_payment, in any row order
PendingIds(tbl) == {id \in DOMAIN tbl : tbl[id] # NoRow /\ tbl[id].status = "pending_payment"}

Orderings(S) == {q \in [1..Cardinality(S) -> S] : \A i, j \in 1..Cardinality(S) : q[i] = q[j] => i = j}

RECURSIVE cronPatches(_, _)
cronPatches(tbl, rows) ==
    IF rows = << >> THEN << >>
    ELSE reminderPatches(tbl[Head(rows)]) \o cronPatches(tbl, Tail(rows))

\* the table after the first k patches of ps were applied
RECURSIVE applyPatches(_, _, _)
applyPatches(tbl, ps, k) ==
    IF k = 0 \/ ps = << >> THEN tbl
    ELSE applyPatches(patch(tbl, Head(ps).order_id, Head(ps).body), Tail(ps), k - 1)

\* one whole pass: the fetch, then every patch in turn; the first patch that
\* fails throws out of the loop into the handler's catch (HTTP 500)
CronCheck ==
    \E fetchOk \in BOOLEAN :
    \E rows \in Orderings(PendingIds(orders)) :
        LET ps == cronPatches(orders, rows) IN
        \E done \in IF fetchOk THEN 0..Len(ps) ELSE {0} :
            /\ cron = Idle /\ paid = Idle
            /\ orders' = IF fetchOk THEN applyPatches(orders, ps, done) ELSE orders
            /\ last' = [NoOp EXCEPT !.op = "cron",
                                    !.id = IF fetchOk /\ done < Len(ps)
                                           THEN ps[done + 1].order_id ELSE "none",
                                    !.sent = fetchOk /\ ps # << >>,
                                    !.fetched = IF fetchOk THEN "found" ELSE "error",
                                    !.patched = fetchOk /\ done = Len(ps) /\ done > 0,
                                    !.threw = ~fetchOk \/ done < Len(ps),
                                    !.msg = IF fetchOk /\ done = Len(ps) THEN "ok" ELSE "ERROR"]
            /\ prev' = orders
            /\ UNCHANGED <<now, wcConfigured, ledger, cron, paid, payload, result>>

\* ------------------------------------------------------ handleMarkPaid
\* (a paid patch that leaves the pending reminder message in place)
paidPatchKeepsMessage ==
    [ status |-> "paid",
      paid_at |-> Some(now),
      paid_message_pending |-> TRUE,
      reminder_24_sent |-> TRUE,
      reminder_48_sent |-> TRUE,
      reminder_72_sent |-> TRUE,
      hidden_from_today |-> FALSE ]

paidPatch ==
    [ status |-> "paid",
      paid_at |-> Some(now),
      paid_message_pending |-> TRUE,
      reminder_24_sent |-> TRUE,
      reminder_48_sent |-> TRUE,
      reminder_72_sent |-> TRUE,
      next_message |-> NullStr,
      hidden_from_today |-> FALSE ]

\* the paid_order_items row built from the order as it was fetched
paidItem(order) ==
    [ day |-> dayKey,
      order_id |-> order.order_id,
      amount |-> NumOrZero(order.amount) ]

\* the table paid_order_items holds at most MaxLedger rows: past that an
\* insert is refused, which the handler only logs
InsertOutcomes == IF Len(ledger) < MaxLedger THEN BOOLEAN ELSE {FALSE}

handleMarkPaid ==
    \E orderId \in DOMAIN orders, fetchOk \in BOOLEAN :
    \E patchOk \in Outcomes(fetchOk /\ orders[orderId] # NoRow),
       insertOk \in IF fetchOk /\ orders[orderId] # NoRow THEN InsertOutcomes ELSE {FALSE},
       wooOk \in Outcomes(fetchOk /\ orders[orderId] # NoRow /\ wcConfigured) :
        LET order == orders[orderId]
            goesOn == wooCallSurvived(wooOk)
        IN
        /\ cron = Idle /\ paid = Idle
        /\ IF ~fetchOk THEN
              /\ last' = [NoOp EXCEPT !.op = "markPaid", !.id = orderId,
                                      !.fetched = "error", !.msg = "failed fetching"]
              /\ UNCHANGED <<orders, ledger>>
           ELSE IF order = NoRow THEN
              /\ last' = notFound("markPaid", orderId)
              /\ UNCHANGED <<orders, ledger>>
           ELSE
              /\ orders' = IF goesOn /\ patchOk THEN patch(orders, orderId, paidPatch)
                           ELSE orders
              /\ ledger' = IF goesOn /\ insertOk THEN Append(ledger, paidItem(order))
                           ELSE ledger
              /\ last' = [NoOp EXCEPT !.op = "markPaid", !.id = orderId,
                                      !.fetched = "found",
                                      !.sent = goesOn,
                                      !.patched = goesOn /\ patchOk,
                                      !.woo = IF wcConfigured THEN "processing" ELSE "none",
                                      !.wooFailed = ~wooOk,
                                      !.threw = ~goesOn,
                                      !.inserted = goesOn /\ insertOk,
                                      !.msg = IF goesOn THEN "marked paid" ELSE "none"]
        /\ prev' = orders
        /\ UNCHANGED <<now, wcConfigured, cron, paid, payload, result>>

\* --------------------------------------------------------------- /track
\* (a tracking patch that also drops the offer price)
trackPatchDropsOffer == [status |-> "completed", discounted_amount |-> Null]

\* { tracking_sent: true, status: "completed" }, of the columns kept here
trackPatch == [status |-> "completed"]

Track ==
    \E orderId \in OrderIds, patchOk \in BOOLEAN :
        /\ cron = Idle /\ paid = Idle
        /\ orders' = IF patchOk
                     THEN patch(orders, orderId, trackPatch)
                     ELSE orders
        /\ last' = [NoOp EXCEPT !.op = "track", !.id = orderId,
                                !.patched = patchOk,
                                !.msg = IF patchOk THEN "tracking set"
                                        ELSE "failed to update tracking"]
        /\ prev' = orders
        /\ UNCHANGED <<now, wcConfigured, ledger, cron, paid, payload, result>>

\* ------------------------------- callback_query order_cancel_action:*
\* (a hide that also cancels the order)
hidePatchCancels == [hidden_from_today |-> TRUE, status |-> "cancelled"]

\* { hidden_from_today: true }
hidePatch == [hidden_from_today |-> TRUE]

\* order_cancel_action:<id>:only_list
CancelOnlyList ==
    \E orderId \in OrderIds, patchOk \in BOOLEAN :
        /\ cron = Idle /\ paid = Idle
        /\ orders' = IF patchOk
                     THEN patch(orders, orderId, hidePatch)
                     ELSE orders
        /\ last' = [NoOp EXCEPT !.op = "hideOnly", !.id = orderId,
                                !.patched = patchOk, !.threw = ~patchOk,
                                !.msg = IF patchOk THEN "hidden from today's list"
                                        ELSE "error handling button action"]
        /\ prev' = orders
        /\ UNCHANGED <<now, wcConfigured, ledger, cron, paid, payload, result>>

\* (a backup that keeps the snapshot an earlier cancel took)
backupKeepsFirst(o) ==
    IF o.previous_status # NullStr
    THEN [ previous_status |-> o.previous_status,
           previous_paid_at |-> o.previous_paid_at,
           previous_amount |-> o.previous_amount,
           previous_next_message |-> o.previous_next_message,
           previous_reminder_24_sent |-> o.previous_reminder_24_sent,
           previous_reminder_48_sent |-> o.previous_reminder_48_sent,
           previous_reminder_72_sent |-> o.previous_reminder_72_sent ]
    ELSE [ previous_status |-> o.status,
           previous_paid_at |-> o.paid_at,
           previous_amount |-> NumOrNull(o.amount),
           previous_next_message |-> o.next_message,
           previous_reminder_24_sent |-> BoolOrFalse(o.reminder_24_sent),
           previous_reminder_48_sent |-> BoolOrFalse(o.reminder_48_sent),
           previous_reminder_72_sent |-> BoolOrFalse(o.reminder_72_sent) ]

\* x || null is x for a text or timestamp column (no handler stores ""),
\* and null for the number 0
backup(o) ==
    [ previous_status |-> o.status,
      previous_paid_at |-> o.paid_at,
      previous_amount |-> NumOrNull(o.amount),
      previous_next_message |-> o.next_message,
      previous_reminder_24_sent |-> BoolOrFalse(o.reminder_24_sent),
      previous_reminder_48_sent |-> BoolOrFalse(o.reminder_48_sent),
      previous_reminder_72_sent |-> BoolOrFalse(o.reminder_72_sent) ]

cancelPatch(o) ==
    [ status |-> "cancelled",
      next_message |-> NullStr,
      reminder_24_sent |-> TRUE,
      reminder_48_sent |-> TRUE,
      reminder_72_sent |-> TRUE,
      hidden_from_today |-> TRUE ] @@ backup(o)

\* order_cancel_action:<id>:full
CancelFull ==
    \E orderId \in OrderIds, fetchOk \in BOOLEAN :
    \E patchOk \in Outcomes(fetchOk /\ orders[orderId] # NoRow),
       wooOk \in Outcomes(fetchOk /\ orders[orderId] # NoRow /\ wcConfigured) :
        LET o == orders[orderId]
            goesOn == wooCallSurvived(wooOk)
        IN
        /\ cron = Idle /\ paid = Idle
        /\ IF ~fetchOk THEN
              /\ last' = [NoOp EXCEPT !.op = "cancelFull", !.id = orderId,
                                      !.fetched = "error", !.threw = TRUE,
                                      !.msg = "error handling button action"]
              /\ UNCHANGED orders
           ELSE IF o = NoRow THEN
              /\ last' = notFound("cancelFull", orderId)
              /\ UNCHANGED orders
           ELSE
              /\ orders' = IF goesOn /\ patchOk
                           THEN patch(orders, orderId, cancelPatch(o))
                           ELSE orders
              /\ last' = [NoOp EXCEPT !.op = "cancelFull", !.id = orderId,
                                      !.fetched = "found",
                                      !.sent = goesOn,
                                      !.patched = goesOn /\ patchOk,
                                      !.threw = ~(goesOn /\ patchOk),
                                      !.woo = IF wcConfigured THEN "cancelled" ELSE "none",
                                      !.wooFailed = ~wooOk,
                                      !.msg = IF goesOn /\ patchOk THEN "cancelled, restore is available"
                                              ELSE "error handling button action"]
        /\ prev' = orders
        /\ UNCHANGED <<now, wcConfigured, ledger, cron, paid, payload, result>>

restorePatch(o) ==
    [ status |-> o.previous_status,
      paid_at |-> o.previous_paid_at,
      amount |-> o.previous_amount,
      next_message |-> o.previous_next_message,
      reminder_24_sent |-> FlagFromPrevious(o.previous_reminder_24_sent),
      reminder_48_sent |-> FlagFromPrevious(o.previous_reminder_48_sent),
      reminder_72_sent |-> FlagFromPrevious(o.previous_reminder_72_sent),
      hidden_from_today |-> FALSE,
      previous_status |-> NullStr,
      previous_paid_at |-> Null,
      previous_amount |-> Null,
      previous_next_message |-> NullStr,
      previous_reminder_24_sent |-> "null",
      previous_reminder_48_sent |-> "null",
      previous_reminder_72_sent |-> "null" ]

\* (a guard that looks at the live status instead of the snapshot)
nothingToRestoreByStatus(o) == o.status = NullStr

\* (a restore that never finds the snapshot missing)
nothingToRestoreNever(o) == FALSE

\* if (!o.previous_status)
nothingToRestore(o) == o.previous_status = NullStr

\* order_cancel_action:<id>:restore
CancelRestore ==
    \E orderId \in OrderIds, fetchOk \in BOOLEAN :
    \E patchOk \in Outcomes(fetchOk /\ orders[orderId] # NoRow
                                     /\ ~nothingToRestore(orders[orderId])),
       wooOk \in Outcomes(fetchOk /\ orders[orderId] # NoRow
                                  /\ ~nothingToRestore(orders[orderId]) /\ wcConfigured) :
        LET o == orders[orderId]
            goesOn == wooCallSurvived(wooOk)
        IN
        /\ cron = Idle /\ paid = Idle
        /\ IF ~fetchOk THEN
              /\ last' = [NoOp EXCEPT !.op = "restore", !.id = orderId,
                                      !.fetched = "error", !.threw = TRUE,
                                      !.msg = "error handling button action"]
              /\ UNCHANGED orders
           ELSE IF o = NoRow THEN
              /\ last' = notFound("restore", orderId)
              /\ UNCHANGED orders
           ELSE IF nothingToRestore(o) THEN
              /\ last' = [NoOp EXCEPT !.op = "restore", !.id = orderId,
                                      !.fetched = "found",
                                      !.msg = "no previous state found, cannot restore"]
              /\ UNCHANGED orders
           ELSE
              /\ orders' = IF goesOn /\ patchOk
                           THEN patch(orders, orderId, restorePatch(o))
                           ELSE orders
              /\ last' = [NoOp EXCEPT !.op = "restore", !.id = orderId,
                                      !.fetched = "found",
                                      !.sent = goesOn,
                                      !.patched = goesOn /\ patchOk,
                                      !.threw = ~(goesOn /\ patchOk),
                                      !.woo = IF wcConfigured THEN o.previous_status ELSE "none",
                                      !.wooFailed = ~wooOk,
                                      !.msg = IF goesOn /\ patchOk THEN "restored to previous status"
                                              ELSE "error handling button action"]
        /\ prev' = orders
        /\ UNCHANGED <<now, wcConfigured, ledger, cron, paid, payload, result>>

\* ------------------------------------------------ /delete_today_confirm
\* GET paid_order_items?day=eq.dayKey
fetchPaidItemsForDay(day) == SelectSeq(ledger, LAMBDA e : e.day = day)

\* Array.from(new Set(rows.map(r => r.order_id).filter(Boolean)))
RECURSIVE orderIdsOf(_, _)
orderIdsOf(rows, seen) ==
    IF rows = << >> THEN seen
    ELSE orderIdsOf(Tail(rows),
                    IF \E i \in 1..Len(seen) : seen[i] = Head(rows).order_id
                    THEN seen ELSE Append(seen, Head(rows).order_id))

\* (a DELETE that empties the whole table)
deleteAllPaidItems(day) == << >>

\* DELETE paid_order_items?day=eq.day
deletePaidItemsForDay(day) == SelectSeq(ledger, LAMBDA e : e.day # day)

\* (a loop that ends at the first order row it cannot delete)
RECURSIVE deleteOrdersUntilFailure(_, _, _)
deleteOrdersUntilFailure(tbl, ids, failing) ==
    IF ids = << >> \/ Head(ids) \in failing THEN tbl
    ELSE deleteOrdersUntilFailure([tbl EXCEPT ![Head(ids)] = NoRow], Tail(ids), failing)

\* for (const oid of orderIds) { try { DELETE orders?order_id=eq.oid } catch {} }
RECURSIVE deleteEach(_, _, _)
deleteEach(tbl, ids, failing) ==
    IF ids = << >> THEN tbl
    ELSE deleteEach(IF Head(ids) \in failing THEN tbl
                    ELSE [tbl EXCEPT ![Head(ids)] = NoRow],
                    Tail(ids), failing)

deleteOrders(tbl, ids, failing) == deleteEach(tbl, ids, failing)

\* the ledger rows of the day go in one DELETE, whose failure ends the
\* handler; each order row then goes in a DELETE of its own, whose failure
\* is only logged
DeleteTodayConfirm ==
    \E fetchOk \in BOOLEAN :
    \E deleteOk \in Outcomes(fetchOk /\ fetchPaidItemsForDay(dayKey) # << >>) :
        LET rows == fetchPaidItemsForDay(dayKey)
            orderIds == orderIdsOf(rows, << >>)
            idSet == {orderIds[i] : i \in 1..Len(orderIds)}
        IN
        \E failing \in IF fetchOk /\ rows # << >> /\ deleteOk THEN SUBSET idSet ELSE {{}} :
            /\ cron = Idle /\ paid = Idle
            /\ IF ~fetchOk THEN
                  /\ last' = [NoOp EXCEPT !.op = "deleteToday", !.fetched = "error",
                                          !.threw = TRUE,
                                          !.msg = "failed to delete today's paid_order_items"]
                  /\ UNCHANGED <<orders, ledger>>
               ELSE IF rows = << >> THEN
                  /\ last' = [NoOp EXCEPT !.op = "deleteToday", !.fetched = "absent",
                                          !.msg = "nothing to delete"]
                  /\ UNCHANGED <<orders, ledger>>
               ELSE IF ~deleteOk THEN
                  /\ last' = [NoOp EXCEPT !.op = "deleteToday", !.fetched = "found",
                                          !.ids = idSet, !.sent = TRUE, !.threw = TRUE,
                                          !.msg = "failed to delete today's paid_order_items"]
                  /\ UNCHANGED <<orders, ledger>>
               ELSE
                  /\ ledger' = deletePaidItemsForDay(dayKey)
                  /\ orders' = deleteOrders(orders, orderIds, failing)
                  /\ last' = [NoOp EXCEPT !.op = "deleteToday", !.fetched = "found",
                                          !.ids = idSet, !.failed = failing,
                                          !.sent = TRUE,
                                          !.patched = TRUE, !.msg = "deleted"]
            /\ prev' = orders
            /\ UNCHANGED <<now, wcConfigured, cron, paid, payload, result>>

\* ---------------------------------------------------------------- /today
\* the listing is read from paid_order_items alone
Today ==
    \E fetchOk \in BOOLEAN :
        LET rows == fetchPaidItemsForDay(dayKey) IN
        /\ cron = Idle /\ paid = Idle
        /\ last' = IF ~fetchOk
                   THEN [NoOp EXCEPT !.op = "today", !.fetched = "error", !.threw = TRUE,
                                     !.msg = "failed to fetch today's paid orders"]
                   ELSE IF rows = << >>
                   THEN [NoOp EXCEPT !.op = "today", !.fetched = "absent",
                                     !.msg = "no paid orders yet today"]
                   ELSE [NoOp EXCEPT !.op = "today", !.fetched = "found",
                                     !.ids = {rows[i].order_id : i \in 1..Len(rows)},
                                     !.msg = "today's paid orders"]
        /\ prev' = orders
        /\ UNCHANGED <<now, wcConfigured, orders, ledger, cron, paid, payload, result>>

Next ==
    \/ AdvanceClock
    \/ WoocommerceWebhook
    \/ CronCheck
    \/ handleMarkPaid
    \/ Track
    \/ CancelOnlyList
    \/ CancelFull
    \/ CancelRestore
    \/ DeleteTodayConfirm

Spec == Init /\ [][Next]_vars

\* ------------------------------------------------- interleaved handlers
\* /cron-check and handleMarkPaid are async functions: each await gives the
\* event loop to the other.  The steps below are the stretches between awaits.

\* GET /orders?status=eq.pending_payment answered: the pass now holds its own
\* copy of the rows and has decided every patch it will send
CronFetch ==
    \E fetchOk \in BOOLEAN :
    \E rows \in Orderings(PendingIds(orders)) :
        /\ cron = Idle
        /\ cron' = IF fetchOk /\ cronPatches(orders, rows) # << >>
                   THEN [pc |-> "patching", queue |-> cronPatches(orders, rows)]
                   ELSE Idle
        /\ prev' = orders
        /\ last' = [NoOp EXCEPT !.op = "cronFetch",
                                !.fetched = IF fetchOk THEN "found" ELSE "error",
                                !.threw = ~fetchOk]
        /\ UNCHANGED <<now, wcConfigured, orders, ledger, paid, payload, result>>

\* the next await patch(...) of the pass answered; a failure ends the pass
CronPatch ==
    \E patchOk \in BOOLEAN :
        /\ cron # Idle
        /\ orders' = IF patchOk
                     THEN patch(orders, Head(cron.queue).order_id, Head(cron.queue).body)
                     ELSE orders
        /\ cron' = IF patchOk /\ Tail(cron.queue) # << >>
                   THEN [cron EXCEPT !.queue = Tail(cron.queue)]
                   ELSE Idle
        /\ prev' = orders
        /\ last' = [NoOp EXCEPT !.op = "cronPatch", !.id = Head(cron.queue).order_id,
                                !.patched = patchOk, !.threw = ~patchOk]
        /\ UNCHANGED <<now, wcConfigured, ledger, paid, payload, result>>

\* handleMarkPaid up to its first write: the fetch and the WooCommerce call
PaidFetch ==
    \E orderId \in OrderIds, fetchOk \in BOOLEAN :
        /\ paid = Idle
        /\ paid' = IF fetchOk /\ orders[orderId] # NoRow
                   THEN [pc |-> "patch", id |-> orderId, order |-> orders[orderId]]
                   ELSE Idle
        /\ prev' = orders
        /\ last' = [NoOp EXCEPT !.op = "paidFetch", !.id = orderId,
                                !.fetched = IF ~fetchOk THEN "error"
                                            ELSE IF orders[orderId] = NoRow THEN "absent"
                                            ELSE "found",
                                !.woo = IF fetchOk /\ orders[orderId] # NoRow /\ wcConfigured
                                        THEN "processing" ELSE "none"]
        /\ UNCHANGED <<now, wcConfigured, orders, ledger, cron, payload, result>>

\* the PATCH that marks the order paid answered
PaidPatch ==
    \E patchOk \in BOOLEAN :
        /\ paid # Idle /\ paid.pc = "patch"
        /\ orders' = IF patchOk THEN patch(orders, paid.id, paidPatch) ELSE orders
        /\ paid' = [paid EXCEPT !.pc = "insert"]
        /\ prev' = orders
        /\ last' = [NoOp EXCEPT !.op = "paidPatch", !.id = paid.id,
                                !.fetched = "found", !.patched = patchOk]
        /\ UNCHANGED <<now, wcConfigured, ledger, cron, payload, result>>

\* the POST to paid_order_items answered; the rest of the handler only sends
PaidInsert ==
    \E insertOk \in InsertOutcomes :
        /\ paid # Idle /\ paid.pc = "insert"
        /\ ledger' = IF insertOk THEN Append(ledger, paidItem(paid.order)) ELSE ledger
        /\ paid' = Idle
        /\ prev' = orders
        /\ last' = [NoOp EXCEPT !.op = "paidInsert", !.id = paid.id,
                                !.fetched = "found", !.inserted = insertOk,
                                !.msg = "marked paid"]
        /\ UNCHANGED <<now, wcConfigured, orders, cron, payload, result>>

NextRace ==
    \/ AdvanceClock
    \/ WoocommerceWebhook
    \/ CronFetch
    \/ CronPatch
    \/ PaidFetch
    \/ PaidPatch
    \/ PaidInsert

SpecRace == Init /\ [][NextRace]_vars

\* ------------------------------------------- one pass over several orders
BatchIds == {"o1", "o2"}

InitBatch ==
    /\ now = 0
    /\ wcConfigured \in BOOLEAN
    /\ orders = [id \in BatchIds |-> NoRow]
    /\ ledger = <<>>
    /\ prev = orders
    /\ last = NoOp
    /\ cron = Idle
    /\ paid = Idle
    /\ payload = NoPayload
    /\ result = NotRun

NextBatch ==
    \/ AdvanceClock
    \/ WoocommerceWebhook
    \/ CronCheck

SpecBatch == InitBatch /\ [][NextBatch]_vars

\* ------------------------------------ the escalation left to run its course
\* the clock up to the hour at which the last order created is 72h old
Tock ==
    /\ now < MaxCreatedAt + Hours72
    /\ now' = now + HourStep
    /\ prev' = orders
    /\ last' = NoOp
    /\ UNCHANGED <<wcConfigured, orders, ledger, cron, paid, payload, result>>

\* a pass whose fetch and patches all succeed
CronCheckOk == CronCheck /\ ~last'.threw

NextLive ==
    \/ Tock
    \/ WoocommerceWebhook
    \/ CronCheck

\* time passes, and an external scheduler keeps requesting /cron-check: a
\* pass may fail, but passes that go through keep coming
SpecLive == Init /\ [][NextLive]_vars /\ WF_vars(Tock) /\ WF_vars(CronCheckOk)

\* ------------------------------------------------- the current-day view
NextToday ==
    \/ AdvanceClock
    \/ WoocommerceWebhook
    \/ handleMarkPaid
    \/ CancelOnlyList
    \/ CancelFull
    \/ CancelRestore
    \/ Today

SpecToday == Init /\ [][NextToday]_vars

\* ---------------------------------- cleanup over a ledger of several days
MaxCleanupRows == 2
CleanupDays == {0, 1}

\* an order created at hour 0 and marked paid on the given day
paidOn(id, day) ==
    [ order_id |-> id,
      amount |-> Some(500),
      status |-> "paid",
      created_at |-> 0,
      next_message |-> NullStr,
      reminder_24_sent |-> TRUE,
      reminder_48_sent |-> TRUE,
      reminder_72_sent |-> TRUE,
      discounted_amount |-> Null,
      paid_at |-> Some(day * HoursPerDay),
      paid_message_pending |-> TRUE,
      hidden_from_today |-> FALSE,
      previous_status |-> NullStr,
      previous_paid_at |-> Null,
      previous_amount |-> Null,
      previous_next_message |-> NullStr,
      previous_reminder_24_sent |-> "null",
      previous_reminder_48_sent |-> "null",
      previous_reminder_72_sent |-> "null" ]

CleanupRows == [day : CleanupDays, order_id : BatchIds, amount : {500}]

\* rows are appended as orders are marked paid, so their days never decrease
CleanupLedgers ==
    {l \in UNION {[1..n -> CleanupRows] : n \in 0..MaxCleanupRows} :
        \A i \in 1..Len(l) : \A j \in 1..Len(l) : i < j => l[i].day <= l[j].day}

\* the second day, after some orders were marked paid on either day, in a
\* deployment without WooCommerce credentials
InitCleanup ==
    /\ now = HoursPerDay
    /\ wcConfigured = FALSE
    /\ orders \in [BatchIds -> {NoRow}] \cup
                  {[id \in BatchIds |-> IF id \in S THEN paidOn(id, d[id]) ELSE NoRow] :
                       S \in SUBSET BatchIds, d \in [BatchIds -> CleanupDays]}
    /\ ledger \in CleanupLedgers
    /\ prev = orders
    /\ last = NoOp
    /\ cron = Idle
    /\ paid = Idle
    /\ payload = NoPayload
    /\ result = NotRun

NextCleanup ==
    \/ AdvanceClock
    \/ CronCheck
    \/ handleMarkPaid
    \/ Track
    \/ CancelOnlyList
    \/ DeleteTodayConfirm
    \/ Today

SpecCleanup == InitCleanup /\ [][NextCleanup]_vars


\* ---------------------------------------------- extractItemsFromIncoming
\* JavaScript values of a webhook payload.  An object is a record with
\* t = "object" and the properties it has; a property it lacks reads as
\* undefined.  A number is kept in halves, so that 2.5 can be told from 2 and 3.
Undefined == [t |-> "undefined"]
JsNull == [t |-> "null"]
NaN == [t |-> "NaN"]
Str(s) == [t |-> "string", s |-> s]
Halves == 2
Num(h) == [t |-> "number", halves |-> h]
Arr(a) == [t |-> "array", a |-> a]
SyntaxError == [t |-> "SyntaxError"]

One == Num(Halves)

\* v.f
Field(v, f) == IF f \in DOMAIN v THEN v[f] ELSE Undefined

\* reading a property of null or undefined is a TypeError
NoProperties(v) == v.t \in {"null", "undefined"}

Truthy(v) ==
    CASE v.t \in {"undefined", "null", "NaN"} -> FALSE
      [] v.t = "string" -> v.s # ""
      [] v.t = "number" -> v.halves # 0
      [] OTHER -> TRUE

\* a || b || ... : the first truthy operand, else the last one
RECURSIVE OrChain(_)
OrChain(vs) ==
    IF Len(vs) = 1 \/ Truthy(Head(vs)) THEN Head(vs) ELSE OrChain(Tail(vs))

\* Number(s) for the texts that occur as quantities
StringToNumber(s) ==
    CASE s = "3" -> Num(3 * Halves)
      [] s = "" -> Num(0)
      [] OTHER -> NaN

\* Number(v) for primitives and plain objects
ToNumber(v) ==
    CASE v.t = "number" -> v
      [] v.t = "string" -> StringToNumber(v.s)
      [] v.t = "null" -> Num(0)
      [] OTHER -> NaN

\* v + "" for a string or a whole number
ToText(v) ==
    CASE v.t = "string" -> v.s
      [] v.t = "number" /\ v.halves % Halves = 0 -> ToString(v.halves \div Halves)
      [] OTHER -> v.t

\* s.toLowerCase() on the texts that occur as keys
toLowerCase(s) ==
    CASE s = "Size" -> "size"
      [] s = "Technique" -> "technique"
      [] s = "Size: XL, red" -> "size: xl, red"
      [] OTHER -> s

\* s.trim()
trim(s) ==
    CASE s = " M " -> "M"
      [] OTHER -> s

\* s.includes(word) on lower-cased keys
includes(s, word) ==
    CASE word = "size" -> s \in {"size", "pa_sizes", "sizes", "size: xl, red"}
      [] word = "technique" -> s = "technique"
      [] word = "size:" -> s = "size: xl, red"
      [] OTHER -> FALSE

\* it.display.match(/size:\s*([^\n,;]+)/i)[1]
matchSize(s) ==
    CASE s = "Size: XL, red" -> "XL"
      [] OTHER -> ""

\* JSON.parse(text) for the texts that occur in order.items
JSONparse(text) ==
    CASE text = "[]" -> Arr(<< >>)
      [] text = "[{\"quantity\":2}]" -> Arr(<< [t |-> "object", quantity |-> Num(2 * Halves)] >>)
      [] text = "{}" -> [t |-> "object"]
      [] text = "5" -> Num(5 * Halves)
      [] text = "\"abc\"" -> Str("abc")
      [] text = "null" -> JsNull
      [] OTHER -> SyntaxError

Thrown == [threw |-> TRUE]
Returned(items) == [threw |-> FALSE, items |-> items]

\* x.length is truthy
HasLength(v) ==
    CASE v.t = "array" -> Len(v.a) > 0
      [] v.t = "string" -> v.s # ""
      [] OTHER -> FALSE

IsArray(v) == v.t = "array"

\* lines 94-110: what order.items gives
rawFromItems(order) ==
    LET v == Field(order, "items") IN
    IF ~Truthy(v) THEN Arr(<< >>)
    ELSE IF v.t = "string"
         THEN IF JSONparse(v.s) = SyntaxError THEN Arr(<< >>)
              ELSE OrChain(<< JSONparse(v.s), Arr(<< >>) >>)
    ELSE IF IsArray(v) THEN v
    ELSE Arr(<< >>)

\* (a lookup that takes line_items before anything order.items gives)
rawItemsLineItemsFirst(order) ==
    IF IsArray(Field(order, "line_items")) /\ HasLength(Field(order, "line_items"))
    THEN Field(order, "line_items")
    ELSE rawFromItems(order)

\* lines 113-118: the three fallbacks, each taken while rawItems has no length
rawItemsOf(order) ==
    LET r0 == rawFromItems(order)
        r1 == IF ~HasLength(r0) /\ IsArray(Field(order, "line_items"))
              THEN Field(order, "line_items") ELSE r0
        r2 == IF ~HasLength(r1) /\ IsArray(Field(order, "line_items_data"))
              THEN Field(order, "line_items_data") ELSE r1
        nested == Field(order, "order")
        r3 == IF ~HasLength(r2) /\ Truthy(nested) /\ IsArray(Field(nested, "line_items"))
              THEN Field(nested, "line_items") ELSE r2
    IN r3

\* Number(it.quantity || it.qty || 1), then quantity || 1
quantityOf(it) ==
    LET q == ToNumber(OrChain(<< Field(it, "quantity"), Field(it, "qty"), One >>)) IN
    IF Truthy(q) THEN q ELSE One

\* (an assignment that lets a later value replace an earlier one)
setAlways(cur, val) == val

\* if (!size) size = val
setOnce(cur, val) == IF cur = "" THEN val ELSE cur

\* metas.forEach, lines 132-145; acc holds size, technique and whether a
\* TypeError left the loop
RECURSIVE scanMetas(_, _)
scanMetas(metas, acc) ==
    IF metas = << >> \/ acc.threw THEN acc
    ELSE
        LET m == Head(metas) IN
        IF NoProperties(m) THEN [acc EXCEPT !.threw = TRUE]
        ELSE
            LET key == toLowerCase(ToText(OrChain(
                           << Field(m, "key"), Field(m, "name"), Field(m, "label"), Str("") >>)))
                val == ToText(OrChain(
                           << Field(m, "value"), Field(m, "display_value"),
                              Field(m, "option"), Field(m, "label"), Str("") >>))
                mname == OrChain(<< Field(m, "name"), Str("") >>)
                other == ToText(OrChain(<< Field(m, "option"), Field(m, "value"), Str("") >>))
            IN
            IF val = "" THEN scanMetas(Tail(metas), acc)
            ELSE IF includes(key, "size")
                 THEN scanMetas(Tail(metas), [acc EXCEPT !.size = setOnce(@, val)])
            ELSE IF includes(key, "technique")
                 THEN scanMetas(Tail(metas), [acc EXCEPT !.technique = setOnce(@, val)])
            ELSE IF mname.t # "string" THEN [acc EXCEPT !.threw = TRUE]
            ELSE
                LET a1 == IF includes(toLowerCase(mname.s), "size")
                          THEN [acc EXCEPT !.size = setOnce(@, other)] ELSE acc
                    a2 == IF includes(toLowerCase(mname.s), "technique")
                          THEN [a1 EXCEPT !.technique = setOnce(@, other)] ELSE a1
                IN scanMetas(Tail(metas), a2)

\* attrs.forEach, lines 150-156
RECURSIVE scanAttrs(_, _)
scanAttrs(attrs, acc) ==
    IF attrs = << >> \/ acc.threw THEN acc
    ELSE
        LET a == Head(attrs) IN
        IF NoProperties(a) THEN [acc EXCEPT !.threw = TRUE]
        ELSE
            LET aKey == toLowerCase(ToText(OrChain(
                            << Field(a, "name"), Field(a, "key"), Str("") >>)))
                aVal == ToText(OrChain(
                            << Field(a, "option"), Field(a, "value"), Str("") >>))
            IN
            IF aVal = "" THEN scanAttrs(Tail(attrs), acc)
            ELSE
                LET a1 == IF includes(aKey, "size") /\ acc.size = ""
                          THEN [acc EXCEPT !.size = aVal] ELSE acc
                    a2 == IF includes(aKey, "technique") /\ a1.technique = ""
                          THEN [a1 EXCEPT !.technique = aVal] ELSE a1
                IN scanAttrs(Tail(attrs), a2)

\* lines 160-163
scanDisplay(it, acc) ==
    LET display == Field(it, "display") IN
    IF acc.threw \/ acc.size # "" \/ ~Truthy(display) THEN acc
    ELSE IF display.t # "string" THEN [acc EXCEPT !.threw = TRUE]
    ELSE IF includes(toLowerCase(display.s), "size:") /\ matchSize(display.s) # ""
         THEN [acc EXCEPT !.size = trim(matchSize(display.s))]
    ELSE acc

\* the callback of rawItems.map, lines 121-172
normalizeItem(it) ==
    IF NoProperties(it) THEN Thrown
    ELSE
        LET name == OrChain(<< Field(it, "name"), Field(it, "product_name"),
                               Field(it, "title"), Str("") >>)
            sku == OrChain(<< Field(it, "sku"), Field(it, "sku_id"),
                              IF Truthy(Field(it, "skuId"))
                              THEN Str(ToText(Field(it, "skuId"))) ELSE Str(""),
                              Str("") >>)
            metaCandidates == OrChain(<< Field(it, "meta"), Field(it, "meta_data"),
                                         Field(it, "metaData"), Field(it, "meta_items"),
                                         Arr(<< >>) >>)
            metas == IF IsArray(metaCandidates) THEN metaCandidates.a ELSE << >>
            m == scanMetas(metas, [size |-> "", technique |-> "", threw |-> FALSE])
            attrs == OrChain(<< Field(it, "attributes"), Field(it, "variation"),
                                Field(it, "attributes_data"), Arr(<< >>) >>)
            a == IF ~m.threw /\ m.size = "" /\ IsArray(attrs)
                 THEN scanAttrs(attrs.a, m) ELSE m
            d == scanDisplay(it, a)
        IN
        IF d.threw THEN Thrown
        ELSE [ threw |-> FALSE,
               sku |-> trim(ToText(sku)),
               name |-> trim(ToText(name)),
               quantity |-> quantityOf(it),
               size |-> trim(d.size),
               technique |-> trim(d.technique) ]

RECURSIVE mapItems(_)
mapItems(raw) ==
    IF raw = << >> THEN Returned(<< >>)
    ELSE
        LET first == normalizeItem(Head(raw))
            rest == mapItems(Tail(raw))
        IN
        IF first.threw \/ rest.threw THEN Thrown
        ELSE Returned(<< [f \in DOMAIN first \ {"threw"} |-> first[f]] >> \o rest.items)

\* rawItems.map is a TypeError when rawItems is not an array
extractItemsFromIncoming(order) ==
    LET rawItems == rawItemsOf(order) IN
    IF ~IsArray(rawItems) THEN Thrown ELSE mapItems(rawItems.a)

\* ------------------------------- the item columns of POST /woocommerce-webhook
\* the reducer (s, it) => s + (it.quantity || 1) run from s over items
RECURSIVE reduceQty(_, _)
reduceQty(s, items) ==
    IF items = << >> THEN s
    ELSE LET q == IF Truthy(Head(items).quantity) THEN Head(items).quantity ELSE One
         IN reduceQty(Num(s.halves + q.halves), Tail(items))

\* (a total that counts the items instead of adding their quantities)
totalQtyByCount(items) == Num(Len(items) * Halves)

\* items.reduce((s, it) => s + (it.quantity || 1), 0)
totalQty(items) == reduceQty(Num(0), items)

\* JSON.stringify of a number: NaN is written as null
stringifyNumber(q) == IF q.t = "number" THEN q ELSE JsNull

\* JSON.stringify(items), kept as the value the text parses back to
stringify(items) ==
    [i \in 1..Len(items) |->
        [items[i] EXCEPT !.quantity = stringifyNumber(items[i].quantity)]]

\* items.map((it) => it.f)
column(items, f) == [i \in 1..Len(items) |-> items[i][f]]

\* texts.filter(Boolean)
filterBoolean(texts) == SelectSeq(texts, LAMBDA x : x # "")

\* texts.join(sep)
RECURSIVE join(_, _)
join(texts, sep) ==
    IF texts = << >> THEN ""
    ELSE IF Len(texts) = 1 THEN Head(texts)
    ELSE Head(texts) \o sep \o join(Tail(texts), sep)

\* adding texts one by one to a Set that already holds seen
RECURSIVE addAll(_, _)
addAll(seen, texts) ==
    IF texts = << >> THEN seen
    ELSE addAll(IF \E i \in 1..Len(seen) : seen[i] = Head(texts)
                THEN seen ELSE Append(seen, Head(texts)),
                Tail(texts))

\* (a collection that keeps every value it is given)
arrayFromList(texts) == texts

\* Array.from(new Set(texts)) : a Set iterates in insertion order
arrayFromSet(texts) == addAll(<< >>, texts)

\* mapped.product, sku, sizes, technique, quantity and items
mappedItems(order) ==
    LET items == extractItemsFromIncoming(order).items IN
    [ product |-> join(filterBoolean(column(items, "name")), " | "),
      sku |-> join(filterBoolean(column(items, "sku")), " | "),
      sizes |-> join(arrayFromSet(filterBoolean(column(items, "size"))), ", "),
      technique |-> join(arrayFromSet(filterBoolean(column(items, "technique"))), ", "),
      quantity |-> totalQty(items),
      items |-> stringify(items) ]

\* ------------------------------------------------------ payloads looked at
MaxItems == 2

Quantities ==
    { Undefined, JsNull, Num(0), Num(Halves), Num(2 * Halves), Num(-2 * Halves),
      Num(5), Str("3"), Str("abc") }

QuantityItems ==
    { [t |-> "object", quantity |-> q] : q \in Quantities }
    \cup { [t |-> "object", qty |-> Num(3 * Halves)],
           [t |-> "object", quantity |-> Num(0), qty |-> Num(2 * Halves)] }

MetaEntries ==
    { JsNull,
      [t |-> "object"],
      [t |-> "object", key |-> Str("pa_sizes"), value |-> Str("L")],
      [t |-> "object", key |-> Str("Size"), value |-> Str("XL")],
      [t |-> "object", key |-> Str("technique"), value |-> Str("emb")],
      [t |-> "object", key |-> Str("attr"), name |-> Str("Size"), option |-> Str(" M ")],
      [t |-> "object", key |-> Str("color"), value |-> Str("red")] }

MetaLists ==
    { << >> } \cup { << m >> : m \in MetaEntries }
    \cup { << [t |-> "object", key |-> Str("pa_sizes"), value |-> Str("L")],
              [t |-> "object", key |-> Str("Size"), value |-> Str("XL")] >>,
           << [t |-> "object", key |-> Str("Size"), value |-> Str("XL")],
              [t |-> "object", key |-> Str("pa_sizes"), value |-> Str("L")] >>,
           << [t |-> "object", key |-> Str("pa_sizes"), value |-> Str("L")],
              [t |-> "object", key |-> Str("technique"), value |-> Str("emb")] >>,
           << [t |-> "object", key |-> Str("technique"), value |-> Str("emb")],
              [t |-> "object", key |-> Str("Technique"), value |-> Str("dtf")] >>,
           << [t |-> "object", key |-> Str("attr"), name |-> Str("Size"), option |-> Str(" M ")],
              [t |-> "object", key |-> Str("color"), value |-> Str("red")],
              [t |-> "object", key |-> Str("Size"), value |-> Str("XL")] >> }

AttributeValues ==
    { Undefined,
      Arr(<< JsNull >>),
      Arr(<< [t |-> "object", name |-> Str("Technique"), option |-> Str("dtf")] >>),
      Arr(<< [t |-> "object", name |-> Str("Size"), option |-> Str("S")] >>) }

DisplayValues == { Undefined, Str("Size: XL, red"), Num(5 * Halves) }

MetaItems ==
    { [t |-> "object", sku |-> Str("VJ1"), meta_data |-> Arr(ms),
       attributes |-> at, display |-> d] :
         ms \in MetaLists, at \in AttributeValues, d \in DisplayValues }

\* items that name a product
NamedItems ==
    { [t |-> "object", sku |-> Str("VJ1"),
       meta_data |-> Arr(<< [t |-> "object", key |-> Str("pa_sizes"), value |-> Str("L")] >>)],
      [t |-> "object", sku |-> Str("VJ2"),
       attributes |-> Arr(<< [t |-> "object", name |-> Str("Technique"), option |-> Str("emb")] >>)],
      [t |-> "object", name |-> Str("Polo"), sku |-> Str("VJ3"),
       meta_data |-> Arr(<< [t |-> "object", key |-> Str("pa_sizes"), value |-> Str("L")],
                            [t |-> "object", key |-> Str("technique"), value |-> Str("emb")] >>)],
      [t |-> "object", name |-> Str("Cap"),
       meta_data |-> Arr(<< [t |-> "object", key |-> Str("Size"), value |-> Str("XL")] >>)] }

\* every shape an entry of the raw list takes
RawItems == QuantityItems \cup MetaItems \cup NamedItems \cup { JsNull, [t |-> "object"], Num(5 * Halves) }

\* the entries that lists of several items are made of
ListItems == QuantityItems \cup NamedItems \cup { JsNull, [t |-> "object"] }

RawLists ==
    { << >> } \cup { << it >> : it \in RawItems }
    \cup UNION { [1..k -> ListItems] : k \in 2..MaxItems }

JsonTexts == { "[]", "[{\"quantity\":2}]", "{}", "5", "\"abc\"", "null", "oops" }

ItemsValues ==
    { Undefined, Num(5 * Halves) } \cup { Arr(l) : l \in RawLists } \cup { Str(x) : x \in JsonTexts }

LineItemsValues == { Undefined, Arr(<< >>), Arr(<< [t |-> "object", qty |-> Num(3 * Halves)] >>) }

Payloads ==
    { [t |-> "object", items |-> i, line_items |-> li, line_items_data |-> lid,
       order |-> n] :
         i \in ItemsValues, li \in LineItemsValues,
         lid \in { Undefined, Arr(<< [t |-> "object"] >>) },
         n \in { Undefined,
                 [t |-> "object", line_items |-> Arr(<< [t |-> "object", quantity |-> Num(Halves)] >>)] } }

InitItems ==
    /\ now = 0
    /\ wcConfigured = FALSE
    /\ orders = [id \in OrderIds |-> NoRow]
    /\ ledger = <<>>
    /\ prev = orders
    /\ last = NoOp
    /\ cron = Idle
    /\ paid = Idle
    /\ payload \in Payloads
    /\ result = NotRun

\* const items = extractItemsFromIncoming(order)
ExtractItems ==
    /\ result = NotRun
    /\ result' = [op |-> "extract", out |-> extractItemsFromIncoming(payload)]
    /\ UNCHANGED <<now, wcConfigured, orders, ledger, prev, last, cron, paid, payload>>

\* lines 186-239 of the webhook: a throw of the item code ends in the route's
\* catch ("ERR", nothing inserted), otherwise the row is built
WebhookItems ==
    /\ result # NotRun /\ result.op = "extract"
    /\ result' = IF result.out.threw
                 THEN [op |-> "webhook", resp |-> "ERR"]
                 ELSE [op |-> "webhook", resp |-> "OK", row |-> mappedItems(payload)]
    /\ UNCHANGED <<now, wcConfigured, orders, ledger, prev, last, cron, paid, payload>>

NextItems ==
    \/ ExtractItems
    \/ WebhookItems

SpecItems == InitItems /\ [][NextItems]_vars

\* ================================================================ claims
Flags == {"reminder_24_sent", "reminder_48_sent", "reminder_72_sent"}

\* the handler that ran last was op, and id was stored when it started
Ran(op, id) == last.op = op /\ prev[id] # NoRow /\ orders[id] # NoRow

\* a completed /cron-check pass (fetch and every patch answered) that found
\* id in pending_payment
Ticked(id) ==
    /\ Ran("cron", id)
    /\ ~last.threw
    /\ prev[id].status = "pending_payment"

\* hours elapsed for id when the last handler ran
Elapsed(id) == now - prev[id].created_at

\* the flags a handler turned on
TurnedOn(id) == {f \in Flags : ~prev[id][f] /\ orders[id][f]}

\* the row r with the columns of body replaced
With(r, body) == [f \in DOMAIN r |-> IF f \in DOMAIN body THEN body[f] ELSE r[f]]

\* C1: one tick applies at most one reminder step to an order; with h >= 72
\* and no flag set it leaves only the 24h step applied.
C1_SingleStepTicks ==
    \A id \in OrderIds :
        Ticked(id) =>
            /\ Cardinality(TurnedOn(id)) <= 1
            /\ ( /\ Elapsed(id) >= Hours72
                 /\ \A f \in Flags : ~prev[id][f] )
               => /\ orders[id].reminder_24_sent
                  /\ orders[id].next_message = "reminder_48h"
                  /\ ~orders[id].reminder_48_sent
                  /\ ~orders[id].reminder_72_sent
                  /\ orders[id].discounted_amount = Null
                  /\ orders[id].status = "pending_payment"

\* C2: the 24h step sets exactly reminder_24_sent and next_message, the 48h
\* step exactly reminder_48_sent, discounted_amount = amount - 30 and
\* next_message, and a tick with no open threshold writes nothing.
C2_ReminderSteps ==
    \A id \in OrderIds :
        Ticked(id) =>
            LET o == prev[id]
                h == Elapsed(id)
            IN
            /\ (h >= 24 /\ h < 48 /\ ~o.reminder_24_sent)
               => orders[id] = With(o, [reminder_24_sent |-> TRUE,
                                        next_message |-> "reminder_48h"])
            /\ (h >= 48 /\ h < 72 /\ o.reminder_24_sent /\ ~o.reminder_48_sent
                   /\ o.amount # Null)
               => orders[id] = With(o, [reminder_48_sent |-> TRUE,
                                        discounted_amount |-> <<o.amount[1] - 30>>,
                                        next_message |-> "reminder_72h"])
            /\ ( \/ h < 24
                 \/ /\ h >= 24 => o.reminder_24_sent
                    /\ h >= 48 => o.reminder_48_sent
                    /\ h >= 72 => o.reminder_72_sent )
               => orders[id] = o

C2_Witness ==
    \E id \in OrderIds :
        /\ Ticked(id)
        /\ Elapsed(id) >= 48 /\ Elapsed(id) < 72
        /\ prev[id].reminder_24_sent /\ ~prev[id].reminder_48_sent
        /\ prev[id].amount = <<500>>
        /\ orders[id].reminder_48_sent
        /\ orders[id].discounted_amount = <<470>>

\* C3: the 72h step sets reminder_72_sent, status = cancelled and
\* next_message = null.
C3_AutoCancelStep ==
    \A id \in OrderIds :
        ( /\ Ticked(id)
          /\ Elapsed(id) >= Hours72
          /\ prev[id].reminder_24_sent /\ prev[id].reminder_48_sent
          /\ ~prev[id].reminder_72_sent )
        => /\ orders[id].reminder_72_sent
           /\ orders[id].status = "cancelled"
           /\ orders[id].next_message = NullStr

\* handleMarkPaid found id and its patch of the orders table was applied
MarkedPaid(id) ==
    /\ Ran("markPaid", id)
    /\ last.id = id
    /\ last.fetched = "found"
    /\ last.patched

\* C4: after handleMarkPaid on a pending_payment order, with the store
\* reachable, the order is paid at the call time, paid_message_pending and all
\* reminder flags are true and next_message is null.
C4_MarkPaidPost ==
    \A id \in OrderIds :
        (MarkedPaid(id) /\ prev[id].status = "pending_payment")
        => /\ orders[id].status = "paid"
           /\ orders[id].paid_at = <<now>>
           /\ orders[id].paid_message_pending
           /\ \A f \in Flags : orders[id][f]
           /\ orders[id].next_message = NullStr

C4_Witness ==
    \E id \in OrderIds :
        /\ MarkedPaid(id)
        /\ prev[id].status = "pending_payment"
        /\ prev[id].next_message = "reminder_48h"
        /\ ~prev[id].reminder_48_sent
        /\ orders[id].status = "paid"
        /\ now > 0

\* a row as a completed markPaid leaves it
AsMarkPaidLeaves(o) ==
    /\ o.status = "paid"
    /\ o.paid_at # Null
    /\ o.paid_message_pending
    /\ \A f \in Flags : o[f]
    /\ o.next_message = NullStr
    /\ ~o.hidden_from_today

\* C5: markPaid applied to an order that markPaid already left paid changes
\* nothing in the order record, paid_at included.
C5_MarkPaidIdempotent ==
    \A id \in OrderIds :
        (MarkedPaid(id) /\ AsMarkPaidLeaves(prev[id])) => orders[id] = prev[id]

\* C6: handleMarkPaid on a cancelled, completed or deleted order leaves its
\* status, paid_at and reminder flags alone and adds no ledger entry.
C6_MarkPaidOnlyFromPending ==
    \A id \in OrderIds :
        ( /\ Ran("markPaid", id)
          /\ last.id = id
          /\ prev[id].status \in {"cancelled", "completed", "deleted"} )
        => /\ orders[id].status = prev[id].status
           /\ orders[id].paid_at = prev[id].paid_at
           /\ \A f \in Flags : orders[id][f] = prev[id][f]
           /\ ~last.inserted

\* C7: however one tick and one markPaid on the same order interleave, the
\* order is paid once both are over, and a patch of the tick that lands on an
\* order already paid leaves its status, discounted_amount and next_message.
C7_RaceHarmless ==
    \A id \in OrderIds :
        /\ ( /\ cron = Idle /\ paid = Idle
             /\ orders[id] # NoRow
             /\ orders[id].paid_message_pending )
           => orders[id].status = "paid"
        /\ ( /\ Ran("cronPatch", id)
             /\ last.id = id
             /\ prev[id].status = "paid" )
           => /\ orders[id].status = "paid"
              /\ orders[id].discounted_amount = prev[id].discounted_amount
              /\ orders[id].next_message = prev[id].next_message

PreviousOf(f) ==
    CASE f = "reminder_24_sent" -> "previous_reminder_24_sent"
      [] f = "reminder_48_sent" -> "previous_reminder_48_sent"
      [] f = "reminder_72_sent" -> "previous_reminder_72_sent"

\* C8: a reminder flag that is true stays true under creation, ticks,
\* markPaid, /track, hideOnly and cancelFull; a restore may turn it off, and
\* then only when the backed-up value previous_reminder_N_sent was false.
C8_ReminderMonotonic ==
    \A id \in OrderIds : \A f \in Flags :
        (prev[id] # NoRow /\ orders[id] # NoRow /\ prev[id][f] /\ ~orders[id][f])
        => /\ last.op = "restore"
           /\ prev[id][PreviousOf(f)] = "false"

C8_Witness ==
    \E id \in OrderIds :
        /\ Ran("restore", id)
        /\ last.patched
        /\ prev[id].reminder_24_sent /\ ~orders[id].reminder_24_sent
        /\ prev[id].previous_reminder_24_sent = "false"

\* the row a restore makes of the stored row c, when its patch is applied
afterRestore(c) == With(c, restorePatch(c))

\* C9: cancelFull followed at once by restore gives back status, paid_at,
\* amount, next_message and the three reminder flags as they were before the
\* cancel, and leaves the seven previous_* columns null.
C9_SnapshotRoundTrip ==
    \A id \in OrderIds :
        (Ran("cancelFull", id) /\ last.id = id /\ last.patched) =>
            LET o == prev[id]
                r == afterRestore(orders[id])
            IN
            /\ ~nothingToRestore(orders[id])
            /\ r.status = o.status
            /\ r.paid_at = o.paid_at
            /\ r.amount = o.amount
            /\ r.next_message = o.next_message
            /\ \A f \in Flags : r[f] = o[f]
            /\ r.previous_status = NullStr
            /\ r.previous_paid_at = Null
            /\ r.previous_amount = Null
            /\ r.previous_next_message = NullStr
            /\ \A f \in Flags : r[PreviousOf(f)] = "null"

\* C10: restore on an order without a snapshot reports that there is nothing
\* to restore, writes nothing, calls WooCommerce not at all and does not throw.
C10_NothingToRestore ==
    \A id \in OrderIds :
        ( /\ Ran("restore", id)
          /\ last.id = id
          /\ last.fetched = "found"
          /\ prev[id].previous_status = NullStr )
        => /\ last.msg = "no previous state found, cannot restore"
           /\ orders = prev
           /\ ~last.patched
           /\ last.woo = "none"
           /\ ~last.threw

C10_Witness ==
    \E id \in OrderIds :
        /\ Ran("restore", id)
        /\ last.fetched = "found"
        /\ prev[id].previous_status = NullStr
        /\ prev[id].status = "cancelled"
        /\ wcConfigured
        /\ last.msg = "no previous state found, cannot restore"

\* C11: an order that holds a snapshot (previous_status non-null) is in
\* status cancelled, whatever handlers ran since the cancel.
C11_SnapshotPresence ==
    \A id \in OrderIds :
        (orders[id] # NoRow /\ orders[id].previous_status # NullStr)
        => orders[id].status = "cancelled"

\* every patch a pass owes to the fetched row o, applied to o
afterTick(o) ==
    LET ps == reminderPatches(o)
        one == [x \in {o.order_id} |-> o]
    IN applyPatches(one, ps, Len(ps))[o.order_id]

\* C12: when the patch for one order fails during a pass, every other pending
\* order of that pass still gets all the patches its elapsed time calls for.
C12_PartialBatchFailure ==
    \A id \in DOMAIN orders :
        ( /\ last.op = "cron" /\ last.fetched = "found" /\ last.threw
          /\ last.id # id
          /\ prev[id] # NoRow
          /\ prev[id].status = "pending_payment" )
        => orders[id] = afterTick(prev[id])

WooHandlers == {"markPaid", "cancelFull", "restore"}

\* the write each handler makes to the row o it fetched
localPatch(op, o) ==
    CASE op = "markPaid" -> paidPatch
      [] op = "cancelFull" -> cancelPatch(o)
      [] op = "restore" -> restorePatch(o)

\* C13: when the WooCommerce call of markPaid, cancelFull or restore fails or
\* is skipped, the handler still issues its write to the orders table, the
\* write that lands is the handler's full patch of the fetched row, and the
\* handler leaves through its catch only when that write itself failed.
C13_WooNeverBlocks ==
    \A id \in OrderIds :
        ( /\ last.op \in WooHandlers
          /\ Ran(last.op, id)
          /\ last.id = id
          /\ last.fetched = "found"
          /\ last.op = "restore" => ~nothingToRestore(prev[id])
          /\ last.woo = "none" \/ last.wooFailed )
        => /\ last.sent
           /\ last.patched => orders[id] = With(prev[id], localPatch(last.op, prev[id]))
           /\ ~last.patched => orders = prev
           /\ last.threw => ~last.patched
           /\ last.op = "markPaid" => ~last.threw

C13_Witness ==
    \E id \in OrderIds :
        /\ Ran("restore", id)
        /\ last.id = id
        /\ last.wooFailed
        /\ last.woo = "pending_payment"
        /\ last.patched
        /\ orders[id].status = "pending_payment"
        /\ prev[id].status = "cancelled"

\* C14: markPaid, cancelFull and restore for an order_id that is not stored
\* write nothing to the orders table, add no ledger row, make no WooCommerce
\* call and answer that the order was not found.
C14_NotFoundNoChange ==
    \A id \in OrderIds :
        ( /\ last.op \in WooHandlers
          /\ last.id = id
          /\ last.fetched # "error"
          /\ prev[id] = NoRow )
        => /\ last.fetched = "absent"
           /\ orders = prev
           /\ ~last.sent /\ ~last.patched
           /\ ~last.inserted
           /\ last.woo = "none" /\ ~last.wooFailed
           /\ last.msg = "not found"
           /\ ~last.threw

C14_Witness ==
    \E id \in OrderIds :
        /\ last.op = "cancelFull"
        /\ last.id = id
        /\ last.fetched = "absent"
        /\ prev[id] = NoRow
        /\ wcConfigured
        /\ last.msg = "not found"

\* C15: handleMarkPaid on an order that is already paid adds no row to
\* paid_order_items (one row per move into paid).
C15_OneEntryPerPaidTransition ==
    \A id \in OrderIds :
        ( /\ Ran("markPaid", id)
          /\ last.id = id
          /\ prev[id].status = "paid" )
        => ~last.inserted

\* C16: when the write that sets status = paid fails inside handleMarkPaid,
\* that call adds no row to paid_order_items.
C16_NoEntryWithoutPaid ==
    \A id \in OrderIds :
        ( /\ Ran("markPaid", id)
          /\ last.id = id
          /\ last.fetched = "found"
          /\ ~last.patched )
        => ~last.inserted

\* the raw entry carries nothing about quantity, size or technique
NoItemData(it) ==
    \A f \in { "quantity", "qty", "meta", "meta_data", "metaData", "meta_items",
               "attributes", "variation", "attributes_data", "display" } :
        Field(it, f) = Undefined

\* C17: extractItemsFromIncoming returns a list for every payload, never
\* throwing, and an entry without quantity, size and technique data comes out
\* with quantity 1, size "" and technique "".
C17_NormalizerNeverRaises ==
    (result # NotRun /\ result.op = "extract") =>
        /\ ~result.out.threw
        /\ LET raw == rawItemsOf(payload).a
               items == result.out.items
           IN
           /\ Len(items) = Len(raw)
           /\ \A i \in 1..Len(raw) :
                  NoItemData(raw[i]) =>
                      /\ items[i].quantity = One
                      /\ items[i].size = ""
                      /\ items[i].technique = ""

\* the quantity given for the raw entry is missing or not a number
QuantityMissingOrInvalid(it) ==
    LET q == OrChain(<< Field(it, "quantity"), Field(it, "qty"), Undefined >>) IN
    ~Truthy(q) \/ ToNumber(q) = NaN

\* C18: every normalized quantity is a whole number from 1 up, and it is 1
\* when the raw quantity is missing or invalid.
C18_QuantityCoercion ==
    (result # NotRun /\ result.op = "extract" /\ ~result.out.threw) =>
        LET raw == rawItemsOf(payload).a
            items == result.out.items
        IN
        \A i \in 1..Len(items) :
            /\ items[i].quantity.t = "number"
            /\ items[i].quantity.halves % Halves = 0
            /\ items[i].quantity.halves >= Halves
            /\ QuantityMissingOrInvalid(raw[i]) => items[i].quantity = One

\* the quantities of the rows a serialized items column parses back to, added
RECURSIVE sumOfQuantities(_)
sumOfQuantities(parsed) ==
    IF parsed = << >> THEN 0
    ELSE Head(parsed).quantity.halves + sumOfQuantities(Tail(parsed))

\* C19: the quantity column of a row the webhook builds is the sum of the
\* quantities of the items serialized in its items column.
C19_QuantityConsistency ==
    (result # NotRun /\ result.op = "webhook" /\ result.resp = "OK") =>
        /\ \A i \in 1..Len(result.row.items) : result.row.items[i].quantity.t = "number"
        /\ result.row.quantity = Num(sumOfQuantities(result.row.items))

C19_Witness ==
    /\ result # NotRun /\ result.op = "webhook" /\ result.resp = "OK"
    /\ Len(result.row.items) = 2
    /\ result.row.items[1].quantity = Num(3 * Halves)
    /\ result.row.items[2].quantity = Num(2 * Halves)
    /\ result.row.quantity = Num(5 * Halves)

\* C20: the quantity column of a row the webhook builds is at least 1, also
\* when the item list is empty.
C20_QuantityFloor ==
    (result # NotRun /\ result.op = "webhook" /\ result.resp = "OK") =>
        result.row.quantity.halves >= Halves

\* the entries of texts at the positions in keep, in their order in texts
RECURSIVE pick(_, _, _)
pick(texts, keep, i) ==
    IF i > Len(texts) THEN << >>
    ELSE (IF i \in keep THEN << texts[i] >> ELSE << >>) \o pick(texts, keep, i + 1)

\* the non-empty values of column f of the stored items, in line order
Values(row, f) ==
    LET xs == column(row.items, f) IN pick(xs, {i \in 1..Len(xs) : xs[i] # ""}, 1)

\* the same, each value kept at its first occurrence only
FirstValues(row, f) ==
    LET xs == column(row.items, f) IN
    pick(xs, {i \in 1..Len(xs) : xs[i] # "" /\ \A j \in 1..(i - 1) : xs[j] # xs[i]}, 1)

\* C21: product and sku of a row the webhook builds are the items' names and
\* skus joined with " | " in line order; sizes and technique are the items'
\* sizes and techniques, each value once at its first occurrence, joined
\* with ", " (an item without a value contributes nothing).
C21_DisplayAggregation ==
    (result # NotRun /\ result.op = "webhook" /\ result.resp = "OK") =>
        LET row == result.row IN
        /\ row.product = join(Values(row, "name"), " | ")
        /\ row.sku = join(Values(row, "sku"), " | ")
        /\ row.sizes = join(FirstValues(row, "size"), ", ")
        /\ row.technique = join(FirstValues(row, "technique"), ", ")
        /\ \A f \in {"size", "technique"} : \A i, j \in 1..Len(FirstValues(row, f)) :
               FirstValues(row, f)[i] = FirstValues(row, f)[j] => i = j

\* items [{sku VJ1, pa_sizes = L}, {sku VJ2, attribute Technique = emb}]
C21_Witness ==
    /\ result # NotRun /\ result.op = "webhook" /\ result.resp = "OK"
    /\ payload.items = Arr(<<
          [t |-> "object", sku |-> Str("VJ1"),
           meta_data |-> Arr(<< [t |-> "object", key |-> Str("pa_sizes"), value |-> Str("L")] >>)],
          [t |-> "object", sku |-> Str("VJ2"),
           attributes |-> Arr(<< [t |-> "object", name |-> Str("Technique"), option |-> Str("emb")] >>)] >>)
    /\ result.row.sku = "VJ1 | VJ2"
    /\ result.row.sizes = "L"
    /\ result.row.technique = "emb"
    /\ result.row.quantity = Num(2 * Halves)

Categories == {"size", "technique"}

\* the metadata list the item code scans for the raw entry it
MetasOf(it) ==
    LET c == OrChain(<< Field(it, "meta"), Field(it, "meta_data"),
                        Field(it, "metaData"), Field(it, "meta_items"), Arr(<< >>) >>)
    IN IF IsArray(c) THEN c.a ELSE << >>

\* the value the metadata entry m carries
MetaValue(m) ==
    ToText(OrChain(<< Field(m, "value"), Field(m, "display_value"),
                      Field(m, "option"), Field(m, "label"), Str("") >>))

\* the metadata entry m, with a non-empty value, is keyed for category c
KeyedFor(m, c) ==
    /\ MetaValue(m) # ""
    /\ includes(toLowerCase(ToText(OrChain(
           << Field(m, "key"), Field(m, "name"), Field(m, "label"), Str("") >>))), c)
    /\ c = "technique" =>
           ~includes(toLowerCase(ToText(OrChain(
               << Field(m, "key"), Field(m, "name"), Field(m, "label"), Str("") >>))), "size")

\* the metadata entry m names category c in its name property only
NamedFor(m, c) ==
    /\ MetaValue(m) # ""
    /\ \A k \in Categories : ~KeyedFor(m, k)
    /\ includes(toLowerCase(ToText(OrChain(<< Field(m, "name"), Str("") >>))), c)

\* C22: when several metadata entries of an item are keyed for size (for
\* technique) with non-empty values, the normalized size (technique) is the
\* value of the first of them in list order, provided no entry before it
\* names the category some other way.
C22_FirstMatchWins ==
    (result # NotRun /\ result.op = "extract" /\ ~result.out.threw) =>
        LET raw == rawItemsOf(payload).a
            items == result.out.items
        IN
        \A i \in 1..Len(items) : \A c \in Categories :
            LET ms == MetasOf(raw[i])
                keyed == {k \in 1..Len(ms) : KeyedFor(ms[k], c)}
            IN
            \A k \in keyed :
                ( /\ \A j \in 1..(k - 1) : ~KeyedFor(ms[j], c) /\ ~NamedFor(ms[j], c) )
                => items[i][c] = trim(MetaValue(ms[k]))

C22_Witness ==
    /\ result # NotRun /\ result.op = "extract" /\ ~result.out.threw
    /\ Len(result.out.items) = 1
    /\ MetasOf(rawItemsOf(payload).a[1]) =
          << [t |-> "object", key |-> Str("Size"), value |-> Str("XL")],
             [t |-> "object", key |-> Str("pa_sizes"), value |-> Str("L")] >>
    /\ result.out.items[1].size = "XL"

\* the attribute list of the raw entry it
AttrsOf(it) ==
    LET c == OrChain(<< Field(it, "attributes"), Field(it, "variation"),
                        Field(it, "attributes_data"), Arr(<< >>) >>)
    IN IF IsArray(c) THEN c.a ELSE << >>

\* the attribute entry a, with a non-empty value, is for category c
AttributeFor(a, c) ==
    /\ ~NoProperties(a)
    /\ ToText(OrChain(<< Field(a, "option"), Field(a, "value"), Str("") >>)) # ""
    /\ includes(toLowerCase(ToText(OrChain(<< Field(a, "name"), Field(a, "key"), Str("") >>))), c)

\* C23: for size and for technique separately, an item none of whose
\* metadata entries is for the category takes the value of its first
\* attribute entry for that category.
C23_PerCategoryFallback ==
    (result # NotRun /\ result.op = "extract" /\ ~result.out.threw) =>
        LET raw == rawItemsOf(payload).a
            items == result.out.items
        IN
        \A i \in 1..Len(items) : \A c \in Categories :
            LET ms == MetasOf(raw[i])
                as == AttrsOf(raw[i])
            IN
            ( /\ \A k \in 1..Len(ms) : ~KeyedFor(ms[k], c) /\ ~NamedFor(ms[k], c)
              /\ \E k \in 1..Len(as) : AttributeFor(as[k], c) )
            => \E k \in 1..Len(as) :
                   /\ AttributeFor(as[k], c)
                   /\ \A j \in 1..(k - 1) : ~AttributeFor(as[j], c)
                   /\ items[i][c] =
                          trim(ToText(OrChain(<< Field(as[k], "option"), Field(as[k], "value"), Str("") >>)))

\* cancelFull found id and its patch of the orders table was applied
CancelledFull(id) ==
    /\ Ran("cancelFull", id)
    /\ last.id = id
    /\ last.fetched = "found"
    /\ last.patched

\* the value a live reminder flag has as a stored previous_reminder_N_sent
AsPrevious(b) == IF b THEN "true" ELSE "false"

\* C24: after cancelFull the seven previous_* columns hold the live values
\* read before the cancel, status is cancelled, next_message is null, the
\* three reminder flags are true and hidden_from_today is true.
C24_CancelFullPost ==
    \A id \in OrderIds :
        CancelledFull(id) =>
            /\ orders[id].previous_status = prev[id].status
            /\ orders[id].previous_paid_at = prev[id].paid_at
            /\ orders[id].previous_amount = prev[id].amount
            /\ orders[id].previous_next_message = prev[id].next_message
            /\ \A f \in Flags : orders[id][PreviousOf(f)] = AsPrevious(prev[id][f])
            /\ orders[id].status = "cancelled"
            /\ orders[id].next_message = NullStr
            /\ \A f \in Flags : orders[id][f]
            /\ orders[id].hidden_from_today

\* a row as cancelFull leaves it
AsCancelFullLeaves(o) ==
    /\ o.status = "cancelled"
    /\ o.previous_status # NullStr
    /\ o.next_message = NullStr
    /\ \A f \in Flags : o[f]
    /\ o.hidden_from_today

\* C25: a cancelFull on an order that a cancelFull already left cancelled
\* overwrites the snapshot; the restore that follows gives status cancelled,
\* all reminder flags true and next_message null, clears previous_*, and
\* leaves nothing for a further restore.
C25_SnapshotsNotStacked ==
    \A id \in OrderIds :
        (CancelledFull(id) /\ AsCancelFullLeaves(prev[id])) =>
            LET r == afterRestore(orders[id]) IN
            /\ orders[id].previous_status = "cancelled"
            /\ r.status = "cancelled"
            /\ \A f \in Flags : r[f]
            /\ r.next_message = NullStr
            /\ r.previous_status = NullStr
            /\ r.previous_paid_at = Null
            /\ r.previous_amount = Null
            /\ r.previous_next_message = NullStr
            /\ \A f \in Flags : r[PreviousOf(f)] = "null"
            /\ nothingToRestore(r)

C25_Witness ==
    \E id \in OrderIds :
        /\ CancelledFull(id)
        /\ AsCancelFullLeaves(prev[id])
        /\ prev[id].previous_status = "pending_payment"
        /\ prev[id].previous_reminder_24_sent = "false"
        /\ prev[id].previous_next_message = "reminder_24h"
        /\ afterRestore(orders[id]).status = "cancelled"
        /\ afterRestore(orders[id]).reminder_24_sent

\* C26: a restore on an order that is no longer in the status cancelFull gave
\* it (markPaid, /track or a restore ran since) changes nothing.
C26_RestoreOnlyAfterCancel ==
    \A id \in OrderIds :
        ( /\ Ran("restore", id)
          /\ last.id = id
          /\ prev[id].status # "cancelled" )
        => orders = prev

\* C27: only_list sets hidden_from_today and nothing else of the order, and
\* makes no WooCommerce call.
C27_HideOnlyFrame ==
    \A id \in OrderIds :
        (Ran("hideOnly", id) /\ last.id = id) =>
            /\ last.patched => orders[id] = With(prev[id], [hidden_from_today |-> TRUE])
            /\ ~last.patched => orders = prev
            /\ \A f \in DOMAIN prev[id] \ {"hidden_from_today"} : orders[id][f] = prev[id][f]
            /\ last.woo = "none" /\ ~last.wooFailed

C27_Witness ==
    \E id \in OrderIds :
        /\ Ran("hideOnly", id)
        /\ last.id = id
        /\ last.patched
        /\ wcConfigured
        /\ ~prev[id].hidden_from_today
        /\ orders[id].hidden_from_today
        /\ orders[id].status = "paid"

\* C28: /track on an order that is pending_payment or cancelled leaves its
\* status; only a paid order becomes completed.
C28_CompletedOnlyFromPaid ==
    \A id \in OrderIds :
        ( /\ Ran("track", id)
          /\ last.id = id
          /\ prev[id].status \in {"pending_payment", "cancelled"} )
        => orders[id].status = prev[id].status

\* C29: the status of an order that is completed or deleted is changed by no
\* handler.
C29_TerminalStates ==
    \A id \in OrderIds :
        ( /\ prev[id] # NoRow
          /\ orders[id] # NoRow
          /\ prev[id].status \in {"completed", "deleted"} )
        => orders[id].status = prev[id].status

\* C30: after /delete_today_confirm went through, every order named by one
\* of the day's ledger rows is still stored, with status deleted, and the
\* ledger holds no row of the day.
C30_CleanupMarksDeleted ==
    (last.op = "deleteToday" /\ last.patched) =>
        /\ \A id \in last.ids :
               prev[id] # NoRow => (orders[id] # NoRow /\ orders[id].status = "deleted")
        /\ \A i \in 1..Len(ledger) : ledger[i].day # dayKey

\* the rows of the ledger that belong to the current day
TodaysRows == {i \in 1..Len(ledger) : ledger[i].day = dayKey}

\* the ledger with the rows of the current day taken out, the others in place
WithoutToday == SelectSeq(ledger, LAMBDA e : e.day # dayKey)

C32_HiddenNotListed ==
    last.op = "today" =>
        \A id \in OrderIds :
            (orders[id] # NoRow /\ orders[id].hidden_from_today) => id \notin last.ids

\* the order rows a step removed
Deleted == {id \in DOMAIN orders : orders[id] # NoRow /\ orders'[id] = NoRow}

\* C40: /delete_today_confirm deletes order rows only after the ledger rows
\* of the day were fetched and deleted; when the fetch or the ledger delete
\* fails, or the day has no ledger row, nothing is deleted; an order whose
\* delete fails is kept and the deletes of the other orders are still made.
C40_CleanupOrdering ==
    [][ last'.op = "deleteToday" =>
          LET ids == {ledger[i].order_id : i \in TodaysRows} IN
          /\ Deleted # {} => /\ last'.fetched = "found"
                             /\ ~last'.threw
                             /\ ledger' = WithoutToday
          /\ (last'.fetched = "error" \/ last'.threw) =>
                 (orders' = orders /\ ledger' = ledger)
          /\ TodaysRows = {} => (orders' = orders /\ ledger' = ledger)
          /\ last'.patched =>
                 /\ \A id \in ids \ last'.failed : orders'[id] = NoRow
                 /\ \A id \in last'.failed : orders'[id] = orders[id]
          /\ \A id \in DOMAIN orders \ ids : orders'[id] = orders[id]
      ]_vars

\* the delete of one order failed and another order was deleted all the same
C40_Witness ==
    /\ last.op = "deleteToday"
    /\ last.patched
    /\ \E id \in last.failed : orders[id] # NoRow
    /\ \E id \in last.ids \ last.failed : prev[id] # NoRow /\ orders[id] = NoRow

\* C33: a pass that went through leaves nothing for a second pass at the same
\* time: whatever order the pending rows come back in, the second pass has
\* no patch to send.
C33_TickIdempotent ==
    (last.op = "cron" /\ ~last.threw) =>
        \A rows \in Orderings(PendingIds(orders)) : cronPatches(orders, rows) = << >>

\* a pass applied a step to an order and left it pending
C33_Witness ==
    \E id \in OrderIds :
        /\ Ticked(id)
        /\ TurnedOn(id) # {}
        /\ orders[id].status = "pending_payment"

\* C36: discounted_amount is null when the order is created, a value it has is
\* never changed, and it takes a value only in a /cron-check pass that turns
\* reminder_48_sent on, the value being amount - 30.
C36_DiscountSetOnce ==
    \A id \in OrderIds :
        /\ (last.op = "create" /\ last.id = id /\ last.patched)
           => orders[id].discounted_amount = Null
        /\ (prev[id] # NoRow /\ orders[id] # NoRow) =>
              /\ prev[id].discounted_amount # Null
                 => orders[id].discounted_amount = prev[id].discounted_amount
              /\ (prev[id].discounted_amount = Null /\ orders[id].discounted_amount # Null)
                 => /\ last.op = "cron"
                    /\ "reminder_48_sent" \in TurnedOn(id)
                    /\ orders[id].discounted_amount
                           = Some(NumOrZero(prev[id].amount) - Discount)

\* a handler ran on an order that carries its offer price
C36_Witness ==
    \E id \in OrderIds :
        /\ last.op \in {"track", "markPaid", "cancelFull", "restore", "hideOnly"}
        /\ last.patched
        /\ prev[id] # NoRow /\ orders[id] # NoRow
        /\ prev[id].discounted_amount # Null

PreviousColumns ==
    {"previous_status", "previous_paid_at", "previous_amount", "previous_next_message",
     "previous_reminder_24_sent", "previous_reminder_48_sent", "previous_reminder_72_sent"}

NullOf(f) == IF f \in {"previous_paid_at", "previous_amount"} THEN Null ELSE NullStr

\* C38: an order cancelled by the 72h step has every previous_* column null;
\* a restore on a cancelled order without snapshot answers that there is
\* nothing to restore and leaves the row as it was; previous_status turns
\* non-null only in cancelFull.
C38_AutoCancelNotRestorable ==
    \A id \in OrderIds :
        /\ (Ran("cron", id) /\ "reminder_72_sent" \in TurnedOn(id)) =>
              /\ orders[id].status = "cancelled"
              /\ \A f \in PreviousColumns : orders[id][f] = NullOf(f)
              /\ nothingToRestore(orders[id])
        /\ ( /\ Ran("restore", id) /\ last.fetched = "found"
             /\ prev[id].status = "cancelled"
             /\ prev[id].previous_status = NullStr ) =>
              /\ orders[id] = prev[id]
              /\ last.msg = "no previous state found, cannot restore"
              /\ ~last.sent
        /\ ( /\ prev[id] # NoRow /\ orders[id] # NoRow
             /\ prev[id].previous_status = NullStr
             /\ orders[id].previous_status # NullStr ) => last.op = "cancelFull"

\* a restore was asked for an order that the 72h step had cancelled
C38_Witness ==
    \E id \in OrderIds :
        /\ Ran("restore", id) /\ last.fetched = "found"
        /\ prev[id].status = "cancelled"
        /\ prev[id].previous_status = NullStr
        /\ hoursSince(prev[id].created_at) >= Hours72

CronColumns ==
    {"reminder_24_sent", "reminder_48_sent", "reminder_72_sent",
     "next_message", "discounted_amount", "status"}

\* C39: a /cron-check pass neither creates nor deletes an order, changes no
\* order that was not pending when it ran, changes no column other than the
\* three flags, next_message, discounted_amount and status, and leaves the
\* ledger as it was.
C39_SchedulerFrame ==
    [][ last'.op = "cron" =>
          /\ ledger' = ledger
          /\ \A id \in DOMAIN orders :
                IF orders[id] = NoRow THEN orders'[id] = NoRow
                ELSE /\ orders'[id] # NoRow
                     /\ \A f \in DOMAIN orders[id] \ CronColumns :
                            orders'[id][f] = orders[id][f]
                     /\ orders[id].status # "pending_payment"
                        => orders'[id] = orders[id]
      ]_vars

\* a pass ran over an order that is not pending and has a step overdue
C39_Witness ==
    \E id \in OrderIds :
        /\ Ran("cron", id)
        /\ last.fetched = "found"
        /\ prev[id].status # "pending_payment"
        /\ ~prev[id].reminder_24_sent
        /\ Elapsed(id) >= Hours24

\* the list a location holds: the array itself, the array a JSON text parses
\* to where text is accepted, the empty list for anything else
ListAt(v, textAllowed) ==
    IF v.t = "array" THEN v.a
    ELSE IF textAllowed /\ v.t = "string" /\ JSONparse(v.s).t = "array" THEN JSONparse(v.s).a
    ELSE << >>

\* the four locations of a payload, in the order of their priority
Locations(order) ==
    << ListAt(Field(order, "items"), TRUE),
       ListAt(Field(order, "line_items"), FALSE),
       ListAt(Field(order, "line_items_data"), FALSE),
       ListAt(Field(Field(order, "order"), "line_items"), FALSE) >>

\* the first location that is not empty, the empty list when all are
FirstNonEmpty(order) ==
    LET locs == Locations(order)
        filled == {k \in 1..Len(locs) : locs[k] # << >>}
    IN
    IF filled = {} THEN << >>
    ELSE locs[CHOOSE k \in filled : \A j \in filled : k <= j]

\* C35: the list extractItemsFromIncoming returns is made from the first
\* non-empty location among items, line_items, line_items_data and
\* order.line_items: it has one normalized item per entry of that list, in
\* the same order, and nothing from a later location.
C35_ItemCollectionPriority ==
    (result # NotRun /\ result.op = "extract" /\ ~result.out.threw) =>
        LET raw == FirstNonEmpty(payload)
            items == result.out.items
        IN
        /\ Len(items) = Len(raw)
        /\ \A i \in 1..Len(raw) :
               LET n == normalizeItem(raw[i]) IN
               items[i] = [f \in DOMAIN n \ {"threw"} |-> n[f]]

\* order.items holds two entries and line_items holds another one
C35_Witness ==
    /\ result # NotRun /\ result.op = "extract" /\ ~result.out.threw
    /\ Field(payload, "items").t = "array"
    /\ Len(Field(payload, "items").a) = 2
    /\ Field(payload, "items").a[1] # Field(payload, "items").a[2]
    /\ Field(payload, "line_items").t = "array"
    /\ Field(payload, "line_items").a # << >>
    /\ Len(result.out.items) = 2

Pending(id) == orders[id] # NoRow /\ orders[id].status = "pending_payment"

AutoCancelled(id) ==
    /\ orders[id] # NoRow
    /\ orders[id].status = "cancelled"
    /\ \A f \in Flags : orders[id][f]

\* C34: while /cron-check keeps being requested and answered and no operator
\* command comes in, every order that is pending is eventually cancelled with
\* its three reminder flags set, and stays so from then on.
C34_EscalationCulminates ==
    /\ \A id \in OrderIds : Pending(id) ~> AutoCancelled(id)
    /\ [][\A id \in OrderIds : AutoCancelled(id) => AutoCancelled(id)']_vars

\* the pass that cancelled an order at 72h
C34_Witness ==
    \E id \in OrderIds :
        /\ Ticked(id)
        /\ "reminder_72_sent" \in TurnedOn(id)
        /\ AutoCancelled(id)
====
